---- MODULE Spec2Model ----
(***************************************************************************)
(* A model of `route` (src/main.rs): a command-line flight logger that     *)
(* parses an elapsed-time expression, acquires notes inline or through an  *)
(* editor round trip on a fixed temp file, builds a Flight record and      *)
(* appends it as one JSON line to a per-user log file.                     *)
(*                                                                         *)
(* Text is modelled as a sequence of one-character strings, so parsing,    *)
(* formatting, upper-casing, comment stripping and JSON escaping are       *)
(* computed character by character as the code computes them.              *)
(***************************************************************************)
EXTENDS Integers, Sequences, FiniteSets, TLC

VARIABLES
    fnIn,      \* input handed to a pure function (the pure-function specifications)
    fnOut,     \* its result
    fnDone,    \* whether the function has been applied
    pc,        \* per invocation: the position in main/run
    args,      \* per invocation: the parsed Args
    notes,     \* per invocation: the `notes` local of run
    flight,    \* per invocation: the Flight built by run
    exit,      \* per invocation: the process exit status
    hist,      \* per invocation: what it has done so far (history, see Hist0)
    logStart,  \* per invocation: the log file's content when the invocation began
    temp,      \* the file <temp_dir>/EDIT_NOTE
    dirOk,     \* the data directory exists
    log,       \* the content of <data_dir>/db.json
    logInit,   \* the log file's content before the first invocation
    appended   \* the invocations that returned Ok and their JSON texts, in order

vars == <<fnIn, fnOut, fnDone, pc, args, notes, flight, exit, hist, logStart,
          temp, dirOk, log, logInit, appended>>

-----------------------------------------------------------------------------
(* Bounds of the model *)

MaxMinutes == 130   \* total-minutes inputs range over -MaxMinutes..MaxMinutes
MaxHours   == 2     \* "H+M" inputs: H in -MaxHours..MaxHours
MaxMin     == 76    \* "H+M" inputs: M in -MaxMin..MaxMin
MaxNoteLen == 4     \* notes texts handed to strip_comments have at most this length
MaxWpts    == 2     \* number of waypoint arguments, at least 1
NumProcs   == 2     \* invocations of the program
MaxInline  == 1     \* inline --notes texts have at most this length
MaxPartial == 1     \* a failed write has appended at most this many tokens

-----------------------------------------------------------------------------
(* Characters and text *)

LF == "\n"
CR == "\r"

Digits == <<"0", "1", "2", "3", "4", "5", "6", "7", "8", "9">>
Lower  == <<"a", "b", "c", "d", "e", "f", "g", "h", "i", "j", "k", "l", "m",
            "n", "o", "p", "q", "r", "s", "t", "u", "v", "w", "x", "y", "z">>
Upper  == <<"A", "B", "C", "D", "E", "F", "G", "H", "I", "J", "K", "L", "M",
            "N", "O", "P", "Q", "R", "S", "T", "U", "V", "W", "X", "Y", "Z">>

Range(s) == {s[i] : i \in 1..Len(s)}

IndexOf(c, s) == CHOOSE i \in 1..Len(s) : s[i] = c

IsPrefix(a, b) == Len(a) <= Len(b) /\ SubSeq(b, 1, Len(a)) = a

Prefixes(s) == {SubSeq(s, 1, k) : k \in 0..Len(s)}

RECURSIVE Concat(_)
Concat(ss) == IF ss = <<>> THEN <<>> ELSE Head(ss) \o Concat(Tail(ss))

\* All sequences over S of length lo..hi
SeqsOf(S, lo, hi) == UNION {[1..n -> S] : n \in lo..hi}

\* i32 limits (hours and minutes are i32)
I32_MAX == 2147483647
I32_MIN == -I32_MAX - 1

-----------------------------------------------------------------------------
(* Integer formatting and parsing *)

RECURSIVE NatToStr(_)
NatToStr(n) ==
    IF n < 10 THEN <<Digits[n + 1]>>
    ELSE NatToStr(n \div 10) \o <<Digits[(n % 10) + 1]>>

\* format!("{t}") for an integer
IntToStr(t) == IF t < 0 THEN <<"-">> \o NatToStr(-t) ELSE NatToStr(t)

RECURSIVE DigitsVal(_, _)
DigitsVal(s, acc) ==
    IF s = <<>> THEN acc
    ELSE DigitsVal(Tail(s), acc * 10 + (IndexOf(Head(s), Digits) - 1))

\* str::parse::<i32>: an optional sign, then one or more decimal digits, in range
ParseI32(s) ==
    LET signed == s # <<>> /\ Head(s) \in {"+", "-"}
        body   == IF signed THEN Tail(s) ELSE s
        mag    == DigitsVal(body, 0)
        val    == IF signed /\ Head(s) = "-" THEN -mag ELSE mag
    IN  IF body = <<>> \/ ~(Range(body) \subseteq Range(Digits))
        THEN [ok |-> FALSE, val |-> 0]
        ELSE IF val > I32_MAX \/ val < I32_MIN
             THEN [ok |-> FALSE, val |-> 0]
             ELSE [ok |-> TRUE, val |-> val]

\* Rust's integer division and remainder truncate toward zero
RustDiv(a, b) == IF a >= 0 THEN a \div b ELSE -((-a) \div b)
RustRem(a, b) == a - b * RustDiv(a, b)

\* str::split_once('+'): the text before and after the first '+'
SplitOncePlus(s) ==
    IF "+" \in Range(s)
    THEN LET i == CHOOSE k \in 1..Len(s) :
                      s[k] = "+" /\ \A j \in 1..(k - 1) : s[j] # "+"
         IN  [some |-> TRUE, left |-> SubSeq(s, 1, i - 1),
              right |-> SubSeq(s, i + 1, Len(s))]
    ELSE [some |-> FALSE, left |-> s, right |-> <<>>]

ElapsedErr == [ok |-> FALSE, hours |-> 0, minutes |-> 0]

\* Faulty variant of from_str: floor division and a non-negative remainder
from_str_floor(s) ==
    LET sp == SplitOncePlus(s)
    IN  IF sp.some
        THEN LET h == ParseI32(sp.left)
                 m == ParseI32(sp.right)
             IN  IF h.ok /\ m.ok
                 THEN [ok |-> TRUE, hours |-> h.val, minutes |-> m.val]
                 ELSE ElapsedErr
        ELSE LET t == ParseI32(s)
             IN  IF t.ok
                 THEN [ok |-> TRUE, hours |-> t.val \div 60, minutes |-> t.val % 60]
                 ELSE ElapsedErr

\* <ElapsedTime as FromStr>::from_str
from_str(s) ==
    LET sp == SplitOncePlus(s)
    IN  IF sp.some
        THEN LET h == ParseI32(sp.left)
                 m == ParseI32(sp.right)
             IN  IF h.ok /\ m.ok
                 THEN [ok |-> TRUE, hours |-> h.val, minutes |-> m.val]
                 ELSE ElapsedErr
        ELSE LET t == ParseI32(s)
             IN  IF t.ok
                 THEN [ok |-> TRUE, hours |-> RustDiv(t.val, 60),
                       minutes |-> RustRem(t.val, 60)]
                 ELSE ElapsedErr

\* Faulty variant of into_duration: takes the minutes to be below 60
into_duration_wrapped(e) == e.hours * 3600 + (e.minutes % 60) * 60

\* ElapsedTime::into_duration, in seconds (as serialized by DurationSeconds<i64>)
into_duration(e) == e.hours * 3600 + e.minutes * 60

-----------------------------------------------------------------------------
(* Notes text *)

\* str::split_inclusive('\n'): pieces that keep their terminating '\n'
RECURSIVE SplitInclusive(_)
SplitInclusive(s) ==
    IF s = <<>> THEN <<>>
    ELSE IF LF \in Range(s)
         THEN LET i == CHOOSE k \in 1..Len(s) :
                           s[k] = LF /\ \A j \in 1..(k - 1) : s[j] # LF
              IN  <<SubSeq(s, 1, i)>> \o SplitInclusive(SubSeq(s, i + 1, Len(s)))
         ELSE <<s>>

\* str::lines maps each piece: strip one "\n" suffix and then one "\r" suffix
LineOf(piece) ==
    IF piece # <<>> /\ piece[Len(piece)] = LF
    THEN LET l == SubSeq(piece, 1, Len(piece) - 1)
         IN  IF l # <<>> /\ l[Len(l)] = CR THEN SubSeq(l, 1, Len(l) - 1) ELSE l
    ELSE piece

\* str::lines
Lines(s) == LET ps == SplitInclusive(s) IN [i \in 1..Len(ps) |-> LineOf(ps[i])]

\* line.starts_with('#')
StartsWithHash(line) == line # <<>> /\ Head(line) = "#"

\* The loop of strip_comments: push every non-comment line and a '\n'
RECURSIVE PushLines(_, _)
PushLines(ls, buf) ==
    IF ls = <<>> THEN buf
    ELSE PushLines(Tail(ls),
                   IF ~StartsWithHash(Head(ls)) THEN buf \o Head(ls) \o <<LF>>
                                                ELSE buf)

\* Faulty variant of strip_comments: the trailing newline is not dropped
strip_comments_keepnl(text) == PushLines(Lines(text), <<>>)

strip_comments(text) ==
    LET buf == PushLines(Lines(text), <<>>)
    IN  IF buf # <<>> /\ buf[Len(buf)] = LF
        THEN SubSeq(buf, 1, Len(buf) - 1)
        ELSE buf

-----------------------------------------------------------------------------
(* The Flight record *)

None    == [some |-> FALSE, val |-> <<>>]
Some(v) == [some |-> TRUE, val |-> v]

\* str::to_ascii_uppercase: ASCII 'a'..'z' map to 'A'..'Z', all else is kept
to_ascii_uppercase(s) ==
    [i \in 1..Len(s) |->
        IF s[i] \in Range(Lower) THEN Upper[IndexOf(s[i], Lower)] ELSE s[i]]

\* Faulty variant of Flight::new: the names are not uppercased
Flight_new_keepcase(origin, waypoints, elapsed) ==
    [waypoints |-> <<origin>> \o waypoints,
     elapsed   |-> into_duration(elapsed),
     notes     |-> None]

\* Flight::new (created is Utc::now(), rendered as one opaque token by to_string)
Flight_new(origin, waypoints, elapsed) ==
    [waypoints |-> <<to_ascii_uppercase(origin)>>
                   \o [i \in 1..Len(waypoints) |-> to_ascii_uppercase(waypoints[i])],
     elapsed   |-> into_duration(elapsed),
     notes     |-> None]

\* Faulty variant of InlineText: the --notes text is comment-stripped too
InlineText_stripped(message) == strip_comments(message)

\* run, line 131: Cow::Borrowed(message), the --notes text as given
InlineText(message) == message

\* Flight::add_notes
add_notes(f, text) == [f EXCEPT !.notes = Some(text)]

\* Faulty variant of BuildFlight: blank notes are dropped as empty ones are
BuildFlight_trim(a, text) ==
    LET f == Flight_new(a.origin, a.waypoints, a.elapsed)
    IN  IF Range(text) \subseteq {" ", LF, CR} THEN f ELSE add_notes(f, text)

\* run, lines 134-138: build the flight, attach the notes unless they are empty
BuildFlight(a, text) ==
    LET f == Flight_new(a.origin, a.waypoints, a.elapsed)
    IN  IF text # <<>> THEN add_notes(f, text) ELSE f

\* serde_json's string escaping of one character
JsonEscape(c) ==
    CASE c = LF   -> <<"\\", "n">>
      [] c = CR   -> <<"\\", "r">>
      [] c = "\"" -> <<"\\", "\"">>
      [] c = "\\" -> <<"\\", "\\">>
      [] OTHER    -> <<c>>

JsonStr(s) == <<"\"">> \o Concat([i \in 1..Len(s) |-> JsonEscape(s[i])]) \o <<"\"">>

RECURSIVE JsonList(_)
JsonList(ss) ==
    IF ss = <<>> THEN <<>>
    ELSE JsonStr(Head(ss)) \o (IF Tail(ss) = <<>> THEN <<>> ELSE <<",">>)
         \o JsonList(Tail(ss))

\* serde_json::to_string(&flight): the fields in declaration order, `notes`
\* skipped when None; the punctuation of each field is one token of the text
to_string(f) ==
    <<"{created:", "<now>", ",waypoints:[">> \o JsonList(f.waypoints)
    \o <<"],elapsed:">> \o IntToStr(f.elapsed)
    \o (IF f.notes.some THEN <<",notes:">> \o JsonStr(f.notes.val) ELSE <<>>)
    \o <<"}">>

-----------------------------------------------------------------------------
(* The program state *)

Procs == 1..NumProcs

\* resource/help_message.txt: the template written to the temp note file
HELP_MESSAGE == <<"#", "h", LF>>

EXIT_FAILURE == 1     \* process::exit(1) in main
CLAP_USAGE   == 2     \* Args::parse() exits with clap's usage status on a bad argument
PANIC_STATUS == 101   \* the status of a Rust process whose main thread panicked

Args0   == [origin |-> <<>>, waypoints |-> <<>>,
            elapsed |-> [hours |-> 0, minutes |-> 0], notes |-> None]
Flight0 == [waypoints |-> <<>>, elapsed |-> 0, notes |-> None]

\* What is recorded of one invocation, kept after it has exited:
\*   inline    --notes was given
\*   launched  the editor was spawned
\*   tmpUse    the temp file was written or read
\*   mkdir     it created the data directory
\*   opened    it opened the log file
\*   wrote     what it has put in the log: "none", "partial", "data" or "line"
\*   failedAt  the step that failed, "none" if none did
\*   saved     the text saved in its editor session (until it exits)
\*   clobbered another invocation wrote the temp file between this one's editor
\*             session and its read of the file
\*   mismatch  the notes it read back are not those of the text it saved
\*   built     the flight was built
Hist0 == [inline |-> FALSE, launched |-> FALSE, tmpUse |-> FALSE, mkdir |-> FALSE,
          opened |-> FALSE, wrote |-> "none", failedAt |-> "none", saved |-> <<>>,
          clobbered |-> FALSE, mismatch |-> FALSE, built |-> FALSE]

FnIdle == fnIn = <<>> /\ fnOut = <<>> /\ fnDone = FALSE

ProcInit ==
    /\ pc = [p \in Procs |-> "start"]
    /\ args = [p \in Procs |-> Args0]
    /\ notes = [p \in Procs |-> <<>>]
    /\ flight = [p \in Procs |-> Flight0]
    /\ exit = [p \in Procs |-> 0]
    /\ hist = [p \in Procs |-> Hist0]
    /\ logStart = [p \in Procs |-> <<>>]
    /\ appended = <<>>

\* A line written by an earlier run of the program
OldLine == to_string(BuildFlight([origin |-> <<"a">>, waypoints |-> << <<"b">> >>,
                                  elapsed |-> [hours |-> 0, minutes |-> 1]], <<>>))
           \o <<LF>>

\* The files before the first invocation: nothing yet, or a data directory whose
\* log holds one line; the temp note file is empty or left over from an old run
FilesInit ==
    /\ temp \in {<<>>, HELP_MESSAGE}
    /\ \/ dirOk = FALSE /\ log = <<>>
       \/ dirOk = TRUE /\ log = OldLine
    /\ logInit = log

Init == FnIdle /\ ProcInit /\ FilesInit

\* The command lines: one origin and waypoint list, a well-formed and a malformed
\* elapsed time, and --notes absent or given with a short text
ElapsedArgs == {<<"0", "+", "1">>, <<"x">>}
NotesArgs   == {None} \cup {Some(t) : t \in SeqsOf({"#", " "}, 0, MaxInline)}
Argv == [origin : {<<"j">>}, waypoints : {<< <<"l">> >>},
         elapsed : ElapsedArgs, notes : NotesArgs]

\* What the user may save in the editor: the template untouched, a note above
\* the template, or blank lines only
EditorTexts == {HELP_MESSAGE, <<"a", LF>> \o HELP_MESSAGE, <<LF, LF>>}

\* The process of invocation p ends with status `code`; its memory is gone,
\* what is recorded of it is h
Exited(p, code, h) ==
    /\ pc' = [pc EXCEPT ![p] = "exited"]
    /\ exit' = [exit EXCEPT ![p] = code]
    /\ hist' = [h EXCEPT ![p].saved = <<>>]
    /\ args' = [args EXCEPT ![p] = Args0]
    /\ notes' = [notes EXCEPT ![p] = <<>>]
    /\ flight' = [flight EXCEPT ![p] = Flight0]
    /\ logStart' = [logStart EXCEPT ![p] = <<>>]

\* run returns Err at `stage`: main prints the error and exits with 1
Fail(p, stage, h) == Exited(p, EXIT_FAILURE, [h EXCEPT ![p].failedAt = stage])

\* Invocation p goes on to `next`
Goto(p, next, h) ==
    /\ pc' = [pc EXCEPT ![p] = next]
    /\ hist' = h
    /\ UNCHANGED <<exit, args, logStart>>

\* `h` with every other invocation that waits to read the temp file marked
Clobber(p, h) ==
    [q \in Procs |-> IF q # p /\ pc[q] = "tmp_read"
                     THEN [h[q] EXCEPT !.clobbered = TRUE] ELSE h[q]]

UnchangedFn == UNCHANGED <<fnIn, fnOut, fnDone>>

-----------------------------------------------------------------------------
(* main and run, one action per step that touches the outside world *)

\* main, line 118: Args::parse(); invocations are numbered in the order they
\* start. The elapsed argument goes through from_str, and a bad argument makes
\* clap print its usage error and exit
ParseFrom(p, choices) ==
    /\ pc[p] = "start"
    /\ \A q \in Procs : q < p => pc[q] # "start"
    /\ \E argv \in choices :
          LET e == from_str(argv.elapsed)
          IN  \/ /\ ~e.ok
                 /\ Exited(p, CLAP_USAGE, [hist EXCEPT ![p].failedAt = "parse"])
              \/ /\ e.ok
                 /\ args' = [args EXCEPT ![p] =
                               [origin |-> argv.origin, waypoints |-> argv.waypoints,
                                elapsed |-> [hours |-> e.hours, minutes |-> e.minutes],
                                notes |-> argv.notes]]
                 /\ logStart' = [logStart EXCEPT ![p] = log]
                 /\ pc' = [pc EXCEPT ![p] = "notes"]
                 /\ hist' = [hist EXCEPT ![p].inline = argv.notes.some]
                 /\ UNCHANGED <<exit, notes, flight>>
    /\ UNCHANGED <<temp, dirOk, log, logInit, appended>>
    /\ UnchangedFn

\* run, lines 128-138 with --notes given: the text is taken as it is
AcquireInline(p) ==
    /\ pc[p] = "notes"
    /\ args[p].notes.some
    /\ notes' = [notes EXCEPT ![p] = InlineText(args[p].notes.val)]
    /\ flight' = [flight EXCEPT ![p] =
                    BuildFlight(args[p], InlineText(args[p].notes.val))]
    /\ Goto(p, "getpath", [hist EXCEPT ![p].built = TRUE])
    /\ UNCHANGED <<temp, dirOk, log, logInit, appended>>
    /\ UnchangedFn

\* read_from_file, line 158: fs::write(&path, HELP_MESSAGE) creates or truncates
\* the file and writes the template; it may fail before or after truncating
TmpWrite(p) ==
    /\ pc[p] = "notes"
    /\ ~args[p].notes.some
    /\ \/ /\ temp' = HELP_MESSAGE
          /\ Goto(p, "spawn", Clobber(p, [hist EXCEPT ![p].tmpUse = TRUE]))
          /\ UNCHANGED <<notes, flight>>
       \/ /\ UNCHANGED temp
          /\ Fail(p, "tmp_write", hist)
       \/ /\ \E t \in Prefixes(HELP_MESSAGE) \ {HELP_MESSAGE} : temp' = t
          /\ Fail(p, "tmp_write", Clobber(p, [hist EXCEPT ![p].tmpUse = TRUE]))
    /\ UNCHANGED <<dirOk, log, logInit, appended>>
    /\ UnchangedFn

\* read_from_file, line 159: Command::new(EDITOR).arg(&path).status() spawns the
\* editor; only a failure to launch is an error
Spawn(p) ==
    /\ pc[p] = "spawn"
    /\ \/ /\ Goto(p, "editing", [hist EXCEPT ![p].launched = TRUE])
          /\ UNCHANGED <<notes, flight>>
       \/ Fail(p, "spawn", hist)
    /\ UNCHANGED <<temp, dirOk, log, logInit, appended>>
    /\ UnchangedFn

\* The editor session: the user saves a text to the temp file and the editor
\* exits (its exit status is not looked at)
EditorExit(p) ==
    /\ pc[p] = "editing"
    /\ \E t \in EditorTexts :
          /\ temp' = t
          /\ Goto(p, "tmp_read",
                  Clobber(p, [hist EXCEPT ![p].saved = t, ![p].clobbered = FALSE]))
    /\ UNCHANGED <<notes, flight, dirOk, log, logInit, appended>>
    /\ UnchangedFn

\* Faulty variant of ReadBack: the template is returned, not the file
ReadBackTemplate(file) == HELP_MESSAGE

\* fs::read_to_string(&path): the content of the temp file as it is now
ReadBack(file) == file

\* read_from_file, line 161, and run, lines 134-138
TmpRead(p) ==
    /\ pc[p] = "tmp_read"
    /\ \/ LET text == strip_comments(ReadBack(temp))
          IN  /\ notes' = [notes EXCEPT ![p] = text]
              /\ flight' = [flight EXCEPT ![p] = BuildFlight(args[p], text)]
              /\ Goto(p, "getpath",
                      [hist EXCEPT ![p].built = TRUE, ![p].tmpUse = TRUE,
                                   ![p].mismatch =
                                       (text # strip_comments(hist[p].saved))])
       \/ Fail(p, "tmp_read", hist)
    /\ UNCHANGED <<temp, dirOk, log, logInit, appended>>
    /\ UnchangedFn

\* get_file_path: ProjectDirs::from(..).unwrap() panics when no home directory
\* is known; the data directory is created when it does not exist
GetPath(p) ==
    /\ pc[p] = "getpath"
    /\ \/ /\ Exited(p, PANIC_STATUS, [hist EXCEPT ![p].failedAt = "resolve"])
          /\ UNCHANGED dirOk
       \/ /\ dirOk
          /\ Goto(p, "open", hist)
          /\ UNCHANGED <<notes, flight, dirOk>>
       \/ /\ ~dirOk
          /\ dirOk' = TRUE
          /\ Goto(p, "open", [hist EXCEPT ![p].mkdir = TRUE])
          /\ UNCHANGED <<notes, flight>>
       \/ /\ ~dirOk
          /\ Fail(p, "mkdir", hist)
          /\ UNCHANGED dirOk
    /\ UNCHANGED <<temp, log, logInit, appended>>
    /\ UnchangedFn

\* run, lines 144-148: open db.json with create, write and append
Open(p) ==
    /\ pc[p] = "open"
    /\ \/ /\ Goto(p, "write_data", [hist EXCEPT ![p].opened = TRUE])
          /\ UNCHANGED <<notes, flight>>
       \/ Fail(p, "open", hist)
    /\ UNCHANGED <<temp, dirOk, log, logInit, appended>>
    /\ UnchangedFn

\* Faulty variant of AppendWrite: a file opened without append(true) is
\* written from its start, over what it holds
WriteAtStart(file, text) ==
    text \o SubSeq(file, Len(text) + 1, Len(file))

\* A write to a file opened with append(true): the text goes to the end of the
\* file, whatever the file holds by then
AppendWrite(file, text) == file \o text

\* What a failed write_all(text) may have appended: nothing, or a part of text
PartialWrites(text) ==
    {SubSeq(text, 1, k) : k \in 0..(IF Len(text) - 1 < MaxPartial
                                     THEN Len(text) - 1 ELSE MaxPartial)}

\* run, line 150: writeln!(file, "{data}") on the unbuffered File is
\* write_fmt, which hands the text and then the "\n" to write_all one after the
\* other. This is the first: the JSON text is appended, or the write fails
\* after a part of it (possibly nothing) has been appended
WriteData(p) ==
    /\ pc[p] = "write_data"
    /\ \/ /\ log' = AppendWrite(log, to_string(flight[p]))
          /\ Goto(p, "write_nl", [hist EXCEPT ![p].wrote = "data"])
          /\ UNCHANGED <<notes, flight>>
       \/ \E part \in PartialWrites(to_string(flight[p])) :
             /\ log' = AppendWrite(log, part)
             /\ Fail(p, "write_data",
                     [hist EXCEPT ![p].wrote =
                         IF part = <<>> THEN "none" ELSE "partial"])
    /\ UNCHANGED <<temp, dirOk, logInit, appended>>
    /\ UnchangedFn

\* run, line 150, the second write: the "\n" that ends the line; run returns
\* Ok and main returns, or the write fails and main exits with 1
WriteNl(p) ==
    /\ pc[p] = "write_nl"
    /\ \/ /\ log' = AppendWrite(log, <<LF>>)
          /\ appended' = Append(appended, [inv |-> p, text |-> to_string(flight[p])])
          /\ Exited(p, 0, [hist EXCEPT ![p].wrote = "line"])
       \/ /\ UNCHANGED <<log, appended>>
          /\ Fail(p, "write_nl", hist)
    /\ UNCHANGED <<temp, dirOk, logInit>>
    /\ UnchangedFn

\* The steps of an invocation that has started
Run(p) ==
    \/ AcquireInline(p)
    \/ TmpWrite(p)
    \/ Spawn(p)
    \/ EditorExit(p)
    \/ TmpRead(p)
    \/ GetPath(p)
    \/ Open(p)
    \/ WriteData(p)
    \/ WriteNl(p)

\* Invocations run one after the other: an invocation starts only when every
\* earlier one has exited
Alone(p) == \A q \in Procs \ {p} : pc[q] \in {"start", "exited"}

Parse(p) == Alone(p) /\ ParseFrom(p, Argv)

Next == \E p \in Procs : Parse(p) \/ Run(p)

Spec == Init /\ [][Next]_vars

\* Two invocations running at the same time, started without --notes or with
\* an empty one
RaceArgv == {a \in Argv : a.notes \in {None, Some(<<>>)}}

Pair == {1, 2}

ParseRace(p) == p \in Pair /\ ParseFrom(p, RaceArgv)

NextRace == \E p \in Procs : ParseRace(p) \/ Run(p)

SpecRace == Init /\ [][NextRace]_vars

-----------------------------------------------------------------------------
(* The pure functions, each applied once to an input drawn from a bounded set *)

ProcIdle == ProcInit /\ temp = <<>> /\ dirOk = FALSE /\ log = <<>> /\ logInit = <<>>

UnchangedProcs ==
    UNCHANGED <<pc, args, notes, flight, exit, hist, logStart, temp, dirOk, log,
                logInit, appended>>

\* Elapsed-time arguments: "{t}", "{h}+{m}", and texts that are no numbers
ElapsedInputs ==
    {[kind |-> "minutes", a |-> t, b |-> 0, text |-> IntToStr(t)] :
        t \in -MaxMinutes..MaxMinutes}
    \cup {[kind |-> "hm", a |-> h, b |-> m,
           text |-> IntToStr(h) \o <<"+">> \o IntToStr(m)] :
             h \in -MaxHours..MaxHours, m \in -MaxMin..MaxMin}
    \cup {[kind |-> "other", a |-> 0, b |-> 0, text |-> t] :
             t \in {<<>>, <<"x">>, <<"1", "+">>, <<"+", "5">>, <<"1", "+", "2", "+", "3">>,
                    <<"-">>, <<"2", "+", "+", "5">>}}

InitElapsed ==
    /\ fnIn \in ElapsedInputs
    /\ fnOut = [parsed |-> ElapsedErr, secs |-> 0]
    /\ fnDone = FALSE
    /\ ProcIdle

\* The elapsed argument is parsed (clap calls from_str) and, when well formed,
\* converted by Flight::new
ParseElapsed ==
    /\ ~fnDone
    /\ LET e == from_str(fnIn.text)
       IN  fnOut' = [parsed |-> e, secs |-> IF e.ok THEN into_duration(e) ELSE 0]
    /\ fnDone' = TRUE
    /\ UNCHANGED fnIn
    /\ UnchangedProcs

SpecElapsed == InitElapsed /\ [][ParseElapsed]_vars

\* Notes texts: every text of at most MaxNoteLen characters of this alphabet
NoteChars == {"a", "#", LF, CR}

InitStrip ==
    /\ fnIn \in SeqsOf(NoteChars, 0, MaxNoteLen)
    /\ fnOut = <<>>
    /\ fnDone = FALSE
    /\ ProcIdle

StripComments ==
    /\ ~fnDone
    /\ fnOut' = strip_comments(fnIn)
    /\ fnDone' = TRUE
    /\ UNCHANGED fnIn
    /\ UnchangedProcs

SpecStrip == InitStrip /\ [][StripComments]_vars

\* Origins and waypoints as typed: mixed case, digits, punctuation, empty
Names == {<<"j", "f", "k">>, <<"L", "a", "x">>, <<"k", "1">>, <<"Z", "-", "z">>, <<>>}

InitFlight ==
    /\ fnIn \in [origin : Names, waypoints : SeqsOf(Names, 1, MaxWpts),
                 elapsed : {[hours |-> 2, minutes |-> 75]}]
    /\ fnOut = Flight0
    /\ fnDone = FALSE
    /\ ProcIdle

NewFlight ==
    /\ ~fnDone
    /\ fnOut' = Flight_new(fnIn.origin, fnIn.waypoints, fnIn.elapsed)
    /\ fnDone' = TRUE
    /\ UNCHANGED fnIn
    /\ UnchangedProcs

SpecFlight == InitFlight /\ [][NewFlight]_vars

-----------------------------------------------------------------------------
(* Properties of the elapsed-time parser, under SpecElapsed *)

\* C8: parsing "{t}" (no '+') yields hours = t/60 and minutes = t%60 under
\* truncating division: hours*60 + minutes = t with |minutes| < 60 and neither
\* of a sign opposite to t's; the stored duration is t*60 seconds.
C8_TotalMinutes ==
    (fnDone /\ fnIn.kind = "minutes") =>
        LET t == fnIn.a
            e == fnOut.parsed
        IN  /\ e.ok
            /\ e.hours * 60 + e.minutes = t
            /\ -60 < e.minutes /\ e.minutes < 60
            /\ t >= 0 => (e.hours >= 0 /\ e.minutes >= 0)
            /\ t <= 0 => (e.hours <= 0 /\ e.minutes <= 0)
            /\ fnOut.secs = t * 60

C8_Witness ==
    /\ fnDone /\ fnIn.kind = "minutes" /\ fnIn.a = -125
    /\ fnOut.parsed = [ok |-> TRUE, hours |-> -2, minutes |-> -5]
    /\ fnOut.secs = -7500

\* C9: parsing "{h}+{m}" yields hours = h and minutes = m as given, with no
\* carry, and the stored duration is h*3600 + m*60 seconds whether or not m is
\* in [0, 60).
C9_HoursPlusMinutes ==
    (fnDone /\ fnIn.kind = "hm") =>
        /\ fnOut.parsed = [ok |-> TRUE, hours |-> fnIn.a, minutes |-> fnIn.b]
        /\ fnOut.secs = fnIn.a * 3600 + fnIn.b * 60

C9_Witness ==
    /\ fnDone /\ fnIn.text = <<"2", "+", "7", "5">>
    /\ fnOut.parsed = [ok |-> TRUE, hours |-> 2, minutes |-> 75]
    /\ fnOut.secs = 11700

-----------------------------------------------------------------------------
(* Properties of strip_comments, under SpecStrip *)

IsComment(line) == Len(line) > 0 /\ line[1] = "#"

KeptLines(text) == SelectSeq(Lines(text), LAMBDA l : ~IsComment(l))

RECURSIVE JoinLF(_)
JoinLF(ls) ==
    IF ls = <<>> THEN <<>>
    ELSE IF Len(ls) = 1 THEN ls[1]
         ELSE ls[1] \o <<LF>> \o JoinLF(Tail(ls))

EndsWithLF(text) == text # <<>> /\ text[Len(text)] = LF

\* C5 (as amended): strip_comments removes exactly the lines whose first
\* character is '#', keeps the other lines in order, joins them with single
\* newlines and adds no newline after the last kept line; the result ends with
\* a newline only when the last of two or more kept lines is empty.
C5_StripJoins ==
    fnDone =>
        /\ fnOut = JoinLF(KeptLines(fnIn))
        /\ EndsWithLF(fnOut) =>
              /\ Len(KeptLines(fnIn)) >= 2
              /\ KeptLines(fnIn)[Len(KeptLines(fnIn))] = <<>>

C5_Witness ==
    /\ fnDone
    /\ fnIn = <<"#", LF, "a", LF>>
    /\ fnOut = <<"a">>

\* C5 (as claimed): the same, and the result never ends with a newline.
C5_NeverEndsWithNewline ==
    fnDone => (fnOut = JoinLF(KeptLines(fnIn)) /\ ~EndsWithLF(fnOut))

-----------------------------------------------------------------------------
(* Properties of Flight::new, under SpecFlight *)

UpperOf(c) == IF c \in Range(Lower) THEN Upper[IndexOf(c, Lower)] ELSE c

\* C7: the record's waypoints are the uppercased origin followed by the
\* uppercased waypoint arguments in input order, nothing added, dropped,
\* deduplicated or reordered; their number is that of the waypoint arguments
\* plus one, at least 2.
C7_Waypoints ==
    fnDone =>
        LET given == <<fnIn.origin>> \o fnIn.waypoints
            w     == fnOut.waypoints
        IN  /\ Len(w) = Len(fnIn.waypoints) + 1
            /\ Len(w) >= 2
            /\ \A i \in 1..Len(w) :
                  /\ Len(w[i]) = Len(given[i])
                  /\ \A j \in 1..Len(w[i]) : w[i][j] = UpperOf(given[i][j])

C7_Witness ==
    /\ fnDone
    /\ fnIn.origin = <<"j", "f", "k">>
    /\ fnIn.waypoints = << <<"L", "a", "x">>, <<"L", "a", "x">> >>
    /\ fnOut.waypoints = << <<"J", "F", "K">>, <<"L", "A", "X">>, <<"L", "A", "X">> >>

-----------------------------------------------------------------------------
(* Properties of an invocation, under Spec (one invocation after the other) *)

Live(p) == pc[p] \notin {"start", "exited"}

\* The log as it was when invocation p began
StartLog(p) == IF pc[p] = "start" THEN log ELSE logStart[p]

\* C1: whatever step fails, when an invocation ends the log is either its
\* content at the start followed by one complete record line (the JSON text
\* and its newline) or unchanged; and a failure during notes acquisition ends
\* the run before the data directory is created, the log opened or written.
C1_NoPartialRecord ==
    [][\A p \in Procs :
          (pc[p] # "exited" /\ pc'[p] = "exited") =>
              /\ \/ log' = StartLog(p)
                 \/ /\ hist[p].built
                    /\ log' = StartLog(p) \o to_string(flight[p]) \o <<LF>>
              /\ hist'[p].failedAt \in {"tmp_write", "spawn", "tmp_read"} =>
                    /\ ~hist'[p].mkdir
                    /\ ~hist'[p].opened
                    /\ hist'[p].wrote = "none"]_vars

Quiet == \A p \in Procs : ~Live(p)

AllOk == \A p \in Procs : pc[p] = "exited" => exit[p] = 0

\* C2: the log only grows at its end, and after any sequence of successful
\* invocations it is its previous content followed by exactly one new line per
\* invocation, in invocation order: k runs from a log of n lines leave n + k
\* lines, the first n of them the original ones.
C2_AppendOnly ==
    /\ IsPrefix(logInit, log)
    /\ (Quiet /\ AllOk) =>
          LET k   == Cardinality({p \in Procs : pc[p] = "exited"})
              old == SplitInclusive(logInit)
              now == SplitInclusive(log)
          IN  /\ Len(appended) = k
              /\ \A i, j \in 1..k : i < j => appended[i].inv < appended[j].inv
              /\ Len(now) = Len(old) + k
              /\ \A i \in 1..Len(now) : EndsWithLF(now[i])
              /\ now = old \o [i \in 1..k |-> appended[i].text \o <<LF>>]

C2_Witness ==
    /\ Quiet /\ AllOk
    /\ logInit = OldLine
    /\ Len(appended) = 2
    /\ appended[1].text # appended[2].text
    /\ Len(SplitInclusive(log)) = 3

\* C3: an invocation ends with status 0 exactly when it appended its record,
\* and every failing invocation ends with status 1.
C3_ExitStatus ==
    \A p \in Procs :
        pc[p] = "exited" =>
            /\ exit[p] = 0 <=> hist[p].wrote = "line"
            /\ exit[p] # 0 => exit[p] = EXIT_FAILURE

IsBlank(text) == Range(text) \subseteq {" ", LF, CR}

\* C4 (as amended): a record has a notes field exactly when the acquired text
\* (the --notes argument as given, or the editor file after comment stripping)
\* is not the empty string, and the field then holds that text: it is never
\* empty, but no whitespace is trimmed, so it may be blank.
C4_NotesIffNonEmpty ==
    \A p \in Procs :
        (Live(p) /\ hist[p].built) =>
            /\ flight[p].notes.some <=> notes[p] # <<>>
            /\ flight[p].notes.some => flight[p].notes.val = notes[p]
            /\ ",notes:" \in Range(to_string(flight[p])) <=> notes[p] # <<>>

C4_Witness ==
    \E p \in Procs :
        /\ Live(p) /\ hist[p].built /\ ~hist[p].inline
        /\ notes[p] = <<LF>>
        /\ flight[p].notes = Some(<<LF>>)

\* C4 (as claimed): a record whose acquired text is empty or blank has no
\* notes field, and a notes field that is present is never empty or blank.
C4_NeverBlank ==
    \A p \in Procs :
        (Live(p) /\ hist[p].built) =>
            /\ flight[p].notes.some <=> ~IsBlank(notes[p])
            /\ flight[p].notes.some => ~IsBlank(flight[p].notes.val)

\* C6: when --notes is given the editor is never launched and the temp note
\* file is never written or read, and the text is used as given: --notes ""
\* leaves the record without a notes field, any other text s gives notes = s.
C6_InlineVerbatim ==
    \A p \in Procs :
        hist[p].inline =>
            /\ ~hist[p].launched
            /\ ~hist[p].tmpUse
            /\ pc[p] \notin {"spawn", "editing", "tmp_read"}
            /\ (Live(p) /\ hist[p].built) =>
                  /\ notes[p] = args[p].notes.val
                  /\ flight[p].notes =
                        IF args[p].notes.val = <<>> THEN None
                        ELSE Some(args[p].notes.val)

C6_Witness ==
    \E p \in Procs :
        /\ pc[p] = "write_nl"
        /\ args[p].notes = Some(<<"#">>)
        /\ flight[p].notes = Some(<<"#">>)
        /\ ~hist[p].launched /\ ~hist[p].tmpUse

-----------------------------------------------------------------------------
(* Properties of two invocations at the same time, under SpecRace *)

\* C10: two simultaneous invocations without --notes can collide on the temp
\* file: an invocation can append a record whose notes are not those of the
\* text saved in its own editor session (C10_Collision is reached), and this
\* happens only when another invocation wrote the temp file between its editor
\* session and its read; otherwise its notes are its own text's kept lines.
C10_OnlyByCollision ==
    \A p \in Procs :
        /\ hist[p].mismatch => hist[p].clobbered
        /\ (Live(p) /\ hist[p].built /\ ~hist[p].inline /\ ~hist[p].clobbered) =>
              notes[p] = JoinLF(KeptLines(hist[p].saved))

C10_Collision ==
    \E p \in Procs :
        /\ pc[p] = "exited" /\ exit[p] = 0
        /\ ~hist[p].inline /\ hist[p].launched
        /\ hist[p].mismatch

====
